---- MODULE Spec2Model ----
(***************************************************************************)
(* A model of three pieces of the frontity repository:                     *)
(*   - the comments schema of wp-source (libraries/schemas/comments.ts),   *)
(*     a normalizr Entity with a processStrategy inside a normalizr Array; *)
(*   - the amp-video processor (html2react processor for <video>);         *)
(*   - the subscribe CLI command.                                          *)
(* Each piece has its own specification (SpecComments, SpecVideo,          *)
(* SpecSubscribe); the variables of the other pieces stay at their idle    *)
(* values.                                                                 *)
(***************************************************************************)
EXTENDS Integers, Sequences, FiniteSets, TLC

VARIABLES
    \* comments schema
    input,          \* the array handed to normalize(input, comments); objects are shared with the caller
    original,       \* history variable: the array as the caller built it
    idx,            \* position of Array.normalize's map over the input
    mapped,         \* what the map produced so far: per element <<id>> or <<>> (undefined)
    entities,       \* entities.comment: key -> stored record
    result,         \* the `result` of normalize: the ordered identifiers
    error,          \* the error thrown by the normalization, "none" when none
    npc,            \* "map" | "done"
    \* amp-video processor
    node,           \* the html2react Element: [component, props]
    origNode,       \* history variable: the node before the processor ran
    vpc,            \* "parsed" | "processed"
    \* subscribe CLI command
    email,          \* the `email` parameter / local; "" is the falsy value
    spc,            \* position in the async function
    promptCount,    \* how many times prompt() was called
    subscribeCalls, \* the arguments of every subscribe(...) call, in order
    listeners,      \* events with a listener registered on the emitter, in order
    emitter,        \* "none" | "pending" | "resolved" | "rejected"
    emitted,        \* how many events the emitter emitted
    handled,        \* the events delivered to a registered listener
    printed         \* whether the thank-you message was printed

commentVars == <<input, original, idx, mapped, entities, result, error, npc>>
videoVars == <<node, origNode, vpc>>
subscribeVars == <<email, spc, promptCount, subscribeCalls, listeners, emitter,
                   emitted, handled, printed>>
vars == <<commentVars, videoVars, subscribeVars>>

(***************************************************************************)
(* Bounds of the model.                                                    *)
(***************************************************************************)
MaxLen == 2
MaxId == 2
MaxPrompts == 2
MaxEvents == 2

EmptyMap == [k \in {} |-> {}]

(***************************************************************************)
(* Comments schema.                                                        *)
(*                                                                         *)
(* A link is a sequence of segments; an absolute link starts with its      *)
(* origin.  A raw comment is a JavaScript object: a function from the      *)
(* property names it has to their values.                                  *)
(***************************************************************************)
Origins == {"https://example.com"}

Links == { <<"https://example.com", "/post/1">>, <<"/post/1">>, <<"/already/relative">> }

Ids == 1..MaxId

Texts == {"hi", "yo"}

\* An optional property is <<>> (absent) or <<v>> (present with value v).
Optional(S) == {<<>>} \cup { <<v>> : v \in S }

RawComment(id, link, text) ==
    [f \in {"link"} \cup (IF id = <<>> THEN {} ELSE {"id"})
                    \cup (IF text = <<>> THEN {} ELSE {"text"}) |->
        CASE f = "id" -> id[1]
          [] f = "link" -> link
          [] f = "text" -> text[1]]

RawComments ==
    { RawComment(id, link, text) : id \in Optional(Ids), link \in Links, text \in Optional(Texts) }

InputArrays == UNION { [1..n -> RawComments] : n \in 0..MaxLen }

\* route-utils' normalize: derives the site-relative link (strips the origin).
normalize(link) ==
    IF link # <<>> /\ link[1] \in Origins THEN Tail(link) ELSE link

\* processStrategy(entity): `entity` is what the argument object holds after
\* the call, `returned` is the returned object.
processStrategyInPlace(entity) ==
    LET res == [entity EXCEPT !.link = normalize(entity.link)]
    IN  [entity |-> res, returned |-> res]

processStrategyKeepLink(entity) ==
    LET res == [f \in DOMAIN entity |-> entity[f]]
    IN  [entity |-> entity, returned |-> res]

processStrategy(entity) ==
    LET copy == [f \in DOMAIN entity |-> entity[f]]               \* const result = { ...entity };
        res == [copy EXCEPT !.link = normalize(copy.link)]        \* result.link = normalize(result.link);
    IN  [entity |-> entity, returned |-> res]                     \* return result;

\* schema.Entity("comment", {}, ...) sets no idAttribute: getId reads
\* input["id"], which is undefined (<<>>) when the property is absent.
getIdWrongAttribute(value) == <<>>

getId(value) ==
    IF "id" \in DOMAIN value THEN <<value.id>> ELSE <<>>

\* The property key an identifier turns into: String(id).
Key(id) == IF id = <<>> THEN "undefined" ELSE ToString(id[1])

\* schema.Entity sets no mergeStrategy: the default is
\* (entityA, entityB) => ({ ...entityA, ...entityB }).
mergeLastWins(entityA, entityB) == entityB

merge(entityA, entityB) ==
    [f \in DOMAIN entityA \cup DOMAIN entityB |->
        IF f \in DOMAIN entityB THEN entityB[f] ELSE entityA[f]]

\* addEntity of normalize(): merge into the entry of that key, or create it.
addEntity(table, id, processedEntity) ==
    LET key == Key(id)
    IN  IF key \in DOMAIN table
        THEN [table EXCEPT ![key] = merge(@, processedEntity)]
        ELSE table @@ (key :> processedEntity)

\* (a map that keeps a placeholder for an undefined value)
RECURSIVE keepAll(_)
keepAll(values) ==
    IF values = <<>> THEN <<>>
    ELSE (IF Head(values) = <<>> THEN <<0>> ELSE <<Head(values)[1]>>) \o keepAll(Tail(values))

\* schema.Array's filter: undefined and null normalized values are dropped.
RECURSIVE filterDefined(_)
filterDefined(values) ==
    IF values = <<>> THEN <<>>
    ELSE (IF Head(values) = <<>> THEN <<>> ELSE <<Head(values)[1]>>) \o filterDefined(Tail(values))

\* the order in which the map collects the normalized values
collectReversed(values, value) == <<value>> \o values

collect(values, value) == Append(values, value)

\* One element of schema.Array's map: Entity.normalize of input[idx]; the
\* entity has no nested schema ({}), so nothing is visited below it.
NormalizeEntity ==
    /\ npc = "map"
    /\ idx <= Len(input)
    /\ LET id == getId(input[idx])
           p == processStrategy(input[idx])
       IN  /\ input' = [input EXCEPT ![idx] = p.entity]
           /\ entities' = addEntity(entities, id, p.returned)
           /\ mapped' = collect(mapped, id)
    /\ idx' = idx + 1
    /\ UNCHANGED <<original, result, error, npc>>
    /\ UNCHANGED <<videoVars, subscribeVars>>

\* The end of schema.Array.normalize and of normalize(): filter, then return
\* { entities, result }.
NormalizeReturn ==
    /\ npc = "map"
    /\ idx > Len(input)
    /\ result' = filterDefined(mapped)
    /\ npc' = "done"
    /\ UNCHANGED <<input, original, idx, mapped, entities, error>>
    /\ UNCHANGED <<videoVars, subscribeVars>>

(***************************************************************************)
(* amp-video processor.                                                    *)
(*                                                                         *)
(* A JavaScript value is [undef |-> TRUE], [str |-> characters] or         *)
(* [num |-> n]; a string is the sequence of its characters.  props maps    *)
(* each property name to its value, undefined when the property is absent. *)
(***************************************************************************)
Undef == [undef |-> TRUE]
Str(chars) == [str |-> chars]
Num(n) == [num |-> n]
IsStr(v) == DOMAIN v = {"str"}
IsNum(v) == DOMAIN v = {"num"}

Http == <<"h", "t", "t", "p", ":", "/", "/">>
Https == <<"h", "t", "t", "p", "s", ":", "/", "/">>
Responsive == <<"r", "e", "s", "p", "o", "n", "s", "i", "v", "e">>

PropNames == {"src", "width", "height", "data-origwidth", "data-origheight", "layout"}

Srcs == { Undef,
          Str(<<>>),
          Str(Http \o <<"a">>),
          Str(Https \o <<"a">>),
          Str(Http \o Http \o <<"a">>),
          Str(<<"x">> \o Http \o <<"a">>),
          Str(<<"/", "v">>) }
Widths == { Undef, Str(<<>>), Str(<<"6", "4", "0">>), Str(<<"0">>), Str(<<"5", "0", "%">>),
            Str(<<"a", "u", "t", "o">>) }
Heights == { Undef, Str(<<"3", "6", "0">>), Str(<<"0">>) }
OrigWidths == { Undef, Str(<<"1", "2", "8", "0">>) }
OrigHeights == { Undef, Str(<<"7", "2", "0">>), Str(<<"-", "1">>) }
Components == {"video", "img"}

Nodes ==
    { [component |-> c,
       props |-> [k \in PropNames |->
                    CASE k = "src" -> s
                      [] k = "width" -> w
                      [] k = "height" -> h
                      [] k = "data-origwidth" -> ow
                      [] k = "data-origheight" -> oh
                      [] k = "layout" -> Undef]] :
      c \in Components, s \in Srcs, w \in Widths, h \in Heights,
      ow \in OrigWidths, oh \in OrigHeights }

\* a || b
Truthy(v) ==
    \/ IsStr(v) /\ v.str # <<>>
    \/ IsNum(v) /\ v.num # 0
Or(a, b) == IF Truthy(a) THEN a ELSE b

Digit(c) ==
    CASE c = "0" -> 0 [] c = "1" -> 1 [] c = "2" -> 2 [] c = "3" -> 3 [] c = "4" -> 4
      [] c = "5" -> 5 [] c = "6" -> 6 [] c = "7" -> 7 [] c = "8" -> 8 [] c = "9" -> 9
IsDigit(c) == c \in {"0", "1", "2", "3", "4", "5", "6", "7", "8", "9"}

\* The value of the longest prefix of decimal digits of `chars`, after `acc`;
\* {} when there is no digit at all (and, with acc = {}, NaN).
RECURSIVE digits(_, _)
digits(chars, acc) ==
    IF chars = <<>> \/ ~IsDigit(Head(chars)) THEN acc
    ELSE digits(Tail(chars), { 10 * n + Digit(Head(chars)) : n \in (IF acc = {} THEN {0} ELSE acc) })

RECURSIVE trimStart(_)
trimStart(chars) ==
    IF chars # <<>> /\ Head(chars) = " " THEN trimStart(Tail(chars)) ELSE chars

\* parseInt(v, 10): {} is NaN, {n} is the number n.
parseInt(v) ==
    IF IsNum(v) THEN {v.num}
    ELSE IF ~IsStr(v) THEN {}          \* String(undefined) has no digits
    ELSE LET t == trimStart(v.str)
         IN  IF t # <<>> /\ Head(t) = "-" THEN { -n : n \in digits(Tail(t), {}) }
             ELSE IF t # <<>> /\ Head(t) = "+" THEN digits(Tail(t), {})
             ELSE digits(t, {})

\* parseInt(v, 10) > 0
Positive(v) == \E n \in parseInt(v) : n > 0

OccursAt(pattern, s, i) ==
    /\ i + Len(pattern) - 1 <= Len(s)
    /\ SubSeq(s, i, i + Len(pattern) - 1) = pattern

\* const httpRegexp = /^http:\/\//: the position of its match in s, 0 for none.
httpRegexpUnanchored(s) ==
    IF \E i \in 1..Len(s) : OccursAt(Http, s, i)
    THEN CHOOSE i \in 1..Len(s) : OccursAt(Http, s, i) /\ \A j \in 1..(i - 1) : ~OccursAt(Http, s, j)
    ELSE 0

httpRegexp(s) == IF OccursAt(Http, s, 1) THEN 1 ELSE 0

\* if (node.props?.src?.match(httpRegexp))
\*   node.props.src = node.props.src.replace(httpRegexp, "https://");
forceHttps(props) ==
    IF IsStr(props["src"]) /\ httpRegexp(props["src"].str) # 0
    THEN LET s == props["src"].str
             at == httpRegexp(s)
         IN  [props EXCEPT !["src"] =
                Str(SubSeq(s, 1, at - 1) \o Https \o SubSeq(s, at + Len(Http), Len(s)))]
    ELSE props

\* The width/height block and the layout.
setSize(props) ==
    LET width == Or(props["width"], props["data-origwidth"])
        height == Or(props["width"], props["data-origheight"])
        sized == IF Positive(width) /\ Positive(height)
                 THEN [props EXCEPT !["width"] = width, !["height"] = height]
                 ELSE [props EXCEPT !["height"] = Num(9), !["width"] = Num(16)]
    IN  [sized EXCEPT !["layout"] = Str(Responsive)]

processor(n) ==
    [component |-> "AMPVideo", props |-> setSize(forceHttps(n.props))]

\* test: ({ node }) => node.component === "video"
test(n) == n.component = "video"

\* html2react applies the processor to the nodes its test accepts.
ApplyVideo ==
    /\ vpc = "parsed"
    /\ test(node)
    /\ node' = processor(node)
    /\ vpc' = "processed"
    /\ UNCHANGED origNode
    /\ UNCHANGED <<commentVars, subscribeVars>>

\* A node the test rejects is left as it is.
SkipVideo ==
    /\ vpc = "parsed"
    /\ ~test(node)
    /\ vpc' = "processed"
    /\ UNCHANGED <<node, origNode>>
    /\ UNCHANGED <<commentVars, subscribeVars>>

(***************************************************************************)
(* subscribe CLI command: async (email) => { ... }.                        *)
(*                                                                         *)
(* The emitter returned by subscribe(email) is a promise that also emits   *)
(* events.  What it does is up to commands/subscribe and the network: it   *)
(* may emit either event, resolve or reject at any moment after it was     *)
(* created.                                                                *)
(***************************************************************************)
Emails == {"", "ann@example.com", "bob@example.com"}
Events == {"cli:subscribe:error", "cli:subscribe"}

\* while (!email)
loopConditionNever(e) == FALSE

loopCondition(e) == e = ""

\* What `await emitter` does with a settled emitter: resume, or throw.
awaitOutcomeIgnoringRejection(state) == "resumed"

awaitOutcome(state) == IF state = "resolved" THEN "resumed" ELSE "rejected"

\* while (!email) { ... await prompt(subscribeQuestion)
Prompt ==
    /\ spc = "loop"
    /\ loopCondition(email)
    /\ promptCount < MaxPrompts
    /\ promptCount' = promptCount + 1
    /\ spc' = "prompting"
    /\ UNCHANGED <<email, subscribeCalls, listeners, emitter, emitted, handled, printed>>
    /\ UNCHANGED <<commentVars, videoVars>>

\* ... email = answer.email; }
Answer ==
    /\ spc = "prompting"
    /\ \E answer \in Emails : email' = answer
    /\ spc' = "loop"
    /\ UNCHANGED <<promptCount, subscribeCalls, listeners, emitter, emitted, handled, printed>>
    /\ UNCHANGED <<commentVars, videoVars>>

\* const emitter = subscribe(email);
CallSubscribe ==
    /\ spc = "loop"
    /\ ~loopCondition(email)
    /\ subscribeCalls' = Append(subscribeCalls, email)
    /\ emitter' = "pending"
    /\ spc' = "created"
    /\ UNCHANGED <<email, promptCount, listeners, emitted, handled, printed>>
    /\ UNCHANGED <<commentVars, videoVars>>

\* emitter.on("cli:subscribe:error", errorLogger);
OnError ==
    /\ spc = "created"
    /\ listeners' = Append(listeners, "cli:subscribe:error")
    /\ spc' = "onError"
    /\ UNCHANGED <<email, promptCount, subscribeCalls, emitter, emitted, handled, printed>>
    /\ UNCHANGED <<commentVars, videoVars>>

\* emitter.on("cli:subscribe", (message, action) => { ... });
OnSubscribe ==
    /\ spc = "onError"
    /\ listeners' = Append(listeners, "cli:subscribe")
    /\ spc' = "awaiting"
    /\ UNCHANGED <<email, promptCount, subscribeCalls, emitter, emitted, handled, printed>>
    /\ UNCHANGED <<commentVars, videoVars>>

\* await emitter;
Await ==
    /\ spc = "awaiting"
    /\ emitter \in {"resolved", "rejected"}
    /\ spc' = awaitOutcome(emitter)
    /\ UNCHANGED <<email, promptCount, subscribeCalls, listeners, emitter, emitted, handled, printed>>
    /\ UNCHANGED <<commentVars, videoVars>>

\* console.log(`Thanks for subscribing ...`)
PrintThanks ==
    /\ spc = "resumed"
    /\ printed' = TRUE
    /\ spc' = "done"
    /\ UNCHANGED <<email, promptCount, subscribeCalls, listeners, emitter, emitted, handled>>
    /\ UNCHANGED <<commentVars, videoVars>>

\* The emitter emits an event: it reaches the listeners registered by then.
Emit ==
    /\ emitter = "pending"
    /\ emitted < MaxEvents
    /\ \E ev \in Events :
          handled' = IF \E i \in 1..Len(listeners) : listeners[i] = ev
                     THEN Append(handled, ev) ELSE handled
    /\ emitted' = emitted + 1
    /\ UNCHANGED <<email, spc, promptCount, subscribeCalls, listeners, emitter, printed>>
    /\ UNCHANGED <<commentVars, videoVars>>

\* The subscription request succeeds or fails.
Settle ==
    /\ emitter = "pending"
    /\ \E outcome \in {"resolved", "rejected"} : emitter' = outcome
    /\ UNCHANGED <<email, spc, promptCount, subscribeCalls, listeners, emitted, handled, printed>>
    /\ UNCHANGED <<commentVars, videoVars>>

(***************************************************************************)
(* Specifications.                                                         *)
(***************************************************************************)
IdleNode == [component |-> "img", props |-> [k \in PropNames |-> Undef]]

\* normalize(input, comments) is about to run on an array of raw comments.
InitComments ==
    /\ input \in InputArrays
    /\ original = input
    /\ idx = 1
    /\ mapped = <<>>
    /\ entities = EmptyMap
    /\ result = <<>>
    /\ error = "none"
    /\ npc = "map"
    /\ node = IdleNode
    /\ origNode = IdleNode
    /\ vpc = "idle"
    /\ email = ""
    /\ spc = "idle"
    /\ promptCount = 0
    /\ subscribeCalls = <<>>
    /\ listeners = <<>>
    /\ emitter = "none"
    /\ emitted = 0
    /\ handled = <<>>
    /\ printed = FALSE

NextComments == NormalizeEntity \/ NormalizeReturn
SpecComments == InitComments /\ [][NextComments]_vars

\* html2react parsed a node and is about to run its processors on it.
InitVideo ==
    /\ input = <<>>
    /\ original = <<>>
    /\ idx = 1
    /\ mapped = <<>>
    /\ entities = EmptyMap
    /\ result = <<>>
    /\ error = "none"
    /\ npc = "idle"
    /\ node \in Nodes
    /\ origNode = node
    /\ vpc = "parsed"
    /\ email = ""
    /\ spc = "idle"
    /\ promptCount = 0
    /\ subscribeCalls = <<>>
    /\ listeners = <<>>
    /\ emitter = "none"
    /\ emitted = 0
    /\ handled = <<>>
    /\ printed = FALSE

NextVideo == ApplyVideo \/ SkipVideo
SpecVideo == InitVideo /\ [][NextVideo]_vars

\* The command was called with an email, or with none.
InitSubscribe ==
    /\ input = <<>>
    /\ original = <<>>
    /\ idx = 1
    /\ mapped = <<>>
    /\ entities = EmptyMap
    /\ result = <<>>
    /\ error = "none"
    /\ npc = "idle"
    /\ node = IdleNode
    /\ origNode = IdleNode
    /\ vpc = "idle"
    /\ email \in Emails
    /\ spc = "loop"
    /\ promptCount = 0
    /\ subscribeCalls = <<>>
    /\ listeners = <<>>
    /\ emitter = "none"
    /\ emitted = 0
    /\ handled = <<>>
    /\ printed = FALSE

NextSubscribe ==
    \/ Prompt \/ Answer \/ CallSubscribe \/ OnError \/ OnSubscribe
    \/ Await \/ PrintThanks \/ Emit \/ Settle
SpecSubscribe == InitSubscribe /\ [][NextSubscribe]_vars

(***************************************************************************)
(* Properties of the comments schema.                                      *)
(***************************************************************************)
Returned == npc = "done"
HasId(r) == "id" \in DOMAIN r
IdKey(r) == IF HasId(r) THEN ToString(r.id) ELSE "undefined"
AllHaveId == \A i \in 1..Len(original) : HasId(original[i])
SomeLacksId == \E i \in 1..Len(original) : ~HasId(original[i])
\* The indices of the input records stored under key k.
Carriers(k) == { i \in 1..Len(original) : IdKey(original[i]) = k }
Max(S) == CHOOSE m \in S : \A n \in S : n <= m

RECURSIVE IdsOf(_)
IdsOf(records) ==
    IF records = <<>> THEN <<>>
    ELSE (IF HasId(Head(records)) THEN <<Head(records).id>> ELSE <<>>) \o IdsOf(Tail(records))

\* The stored record of input record i is that record with only its link
\* changed, to normalize(link).
StoredAsProcessed(i) ==
    LET r == original[i]
        k == IdKey(r)
    IN  /\ k \in DOMAIN entities
        /\ DOMAIN entities[k] = DOMAIN r
        /\ entities[k].link = normalize(r.link)
        /\ \A f \in DOMAIN r \ {"link"} : entities[k][f] = r[f]

\* C1, as stated: for every input record, entities[id] has link =
\* normalize(the record's link) and every other field as in the record, no
\* field added or removed.
C1_EveryRecordStoredAsProcessed ==
    Returned => \A i \in 1..Len(original) : HasId(original[i]) => StoredAsProcessed(i)

\* C1, amended: the same for every input record whose identifier no other
\* record of the array carries.
C1_UniqueRecordStoredAsProcessed ==
    Returned => \A i \in 1..Len(original) :
                    (HasId(original[i]) /\ Carriers(IdKey(original[i])) = {i})
                    => StoredAsProcessed(i)

C1_Witness ==
    /\ Returned
    /\ \E i \in 1..Len(original) :
          /\ Carriers(IdKey(original[i])) = {i}
          /\ HasId(original[i])
          /\ "text" \in DOMAIN original[i]
          /\ normalize(original[i].link) # original[i].link
          /\ StoredAsProcessed(i)

\* C2: for a non-empty input whose records all carry pairwise distinct
\* identifiers, the ordered sequence has the length of the input and its
\* i-th element is the identifier of the i-th record.
C2_OrderFollowsInput ==
    ( /\ Returned
      /\ original # <<>>
      /\ AllHaveId
      /\ \A i, j \in 1..Len(original) : i # j => original[i].id # original[j].id )
    => /\ Len(result) = Len(original)
       /\ \A i \in 1..Len(original) : result[i] = original[i].id

C2_Witness ==
    /\ Returned
    /\ Len(original) >= 2
    /\ AllHaveId
    /\ original[1].id > original[2].id
    /\ result = <<original[1].id, original[2].id>>

SequenceMatchesMapping ==
    /\ \A j \in 1..Len(result) : ToString(result[j]) \in DOMAIN entities
    /\ \A k \in DOMAIN entities : \E j \in 1..Len(result) : ToString(result[j]) = k
    /\ Len(result) = Len(original)

\* C3, as stated: for every input array, every identifier of the ordered
\* sequence has its entry in the mapping, the mapping has no entry whose
\* identifier is absent from the sequence, and the sequence is as long as
\* the input.
C3_SequenceMatchesMapping == Returned => SequenceMatchesMapping

\* C3, amended: the same for every input array (empty, or with repeated
\* identifiers) whose records all carry the identifier field.
C3_SequenceMatchesMappingWhenIdentified ==
    (Returned /\ AllHaveId) => SequenceMatchesMapping

C3_Witness ==
    /\ Returned
    /\ AllHaveId
    /\ Len(original) >= 2
    /\ original[1].id = original[2].id
    /\ Len(result) = Len(original)
    /\ Cardinality(DOMAIN entities) < Len(result)

C5_InputUnchanged == input = original

C5_Witness ==
    /\ Returned
    /\ input = original
    /\ \E i \in 1..Len(original) :
          entities[IdKey(original[i])].link # original[i].link

\* C6, as stated: when two records carry the same identifier, its single
\* entry is exactly the processed later record.
C6_LastWriteWins ==
    Returned => \A i, j \in 1..Len(original) :
                    ( /\ i < j
                      /\ HasId(original[i]) /\ HasId(original[j])
                      /\ original[i].id = original[j].id
                      /\ j = Max(Carriers(IdKey(original[j]))) )
                    => StoredAsProcessed(j)

\* C6, amended: when two or more records carry the same identifier, its
\* single entry is their processed records merged in input order: it has
\* every field some of them has, each with the value of the last record that
\* has it (link: normalized), so a field only an earlier record has appears.
C6_MergedInInputOrder ==
    Returned => \A k \in { IdKey(original[i]) : i \in { n \in 1..Len(original) : HasId(original[n]) } } :
                    Cardinality(Carriers(k)) >= 2 =>
                        /\ k \in DOMAIN entities
                        /\ DOMAIN entities[k] = UNION { DOMAIN original[i] : i \in Carriers(k) }
                        /\ \A f \in DOMAIN entities[k] :
                              LET last == original[Max({ i \in Carriers(k) : f \in DOMAIN original[i] })]
                              IN  entities[k][f] = IF f = "link" THEN normalize(last.link) ELSE last[f]

C6_Witness ==
    /\ Returned
    /\ Len(original) >= 2
    /\ HasId(original[1]) /\ HasId(original[2])
    /\ original[1].id = original[2].id
    /\ "text" \in DOMAIN original[1]
    /\ "text" \notin DOMAIN original[2]
    /\ entities[IdKey(original[1])].text = original[1].text

(***************************************************************************)
(* Properties of the amp-video processor.                                  *)
(***************************************************************************)
Processed == vpc = "processed" /\ test(origNode)

\* C7: after the processor ran, if the node specifies a positive width
\* (props.width or data-origwidth) and a positive height (props.height or
\* data-origheight), props.width and props.height are those values;
\* otherwise they are 16 and 9.  props.layout is "responsive" in every case.
C7_SizeAsSpecified ==
    Processed =>
        LET width == Or(origNode.props["width"], origNode.props["data-origwidth"])
            height == Or(origNode.props["height"], origNode.props["data-origheight"])
        IN  /\ IF Positive(width) /\ Positive(height)
               THEN node.props["width"] = width /\ node.props["height"] = height
               ELSE node.props["width"] = Num(16) /\ node.props["height"] = Num(9)
            /\ node.props["layout"] = Str(Responsive)

StartsWithHttp(v) == IsStr(v) /\ OccursAt(Http, v.str, 1)

\* C8: after the processor ran on a video node, props.src does not start
\* with "http://": a src that did has that prefix replaced by "https://" and
\* the rest unchanged, any other src (an absent one too) is unchanged; the
\* node's component is AMPVideo.
C8_SrcOverHttps ==
    Processed =>
        LET old == origNode.props["src"]
            new == node.props["src"]
        IN  /\ ~StartsWithHttp(new)
            /\ IF StartsWithHttp(old)
               THEN new = Str(Https \o SubSeq(old.str, Len(Http) + 1, Len(old.str)))
               ELSE new = old
            /\ node.component = "AMPVideo"

C8_Witness ==
    /\ Processed
    /\ StartsWithHttp(origNode.props["src"])
    /\ OccursAt(Https, node.props["src"].str, 1)
    /\ Len(node.props["src"].str) = Len(origNode.props["src"].str) + 1

(***************************************************************************)
(* Properties of the subscribe command.                                    *)
(***************************************************************************)
AfterSubscribeCall == spc \in {"created", "onError", "awaiting", "resumed", "done", "rejected"}

\* C9: subscribe(email) is called exactly once and only with a non-empty
\* email; while the email is empty the only thing the command does is prompt
\* (again, up to the MaxPrompts prompts of the model); both listeners are
\* registered before the emitter is awaited; the thank-you message is printed
\* only after the awaited emitter resolved, never after it rejected.
C9_SubscribeCommand ==
    /\ Len(subscribeCalls) <= 1
    /\ \A i \in 1..Len(subscribeCalls) : subscribeCalls[i] # ""
    /\ AfterSubscribeCall <=> Len(subscribeCalls) = 1
    /\ AfterSubscribeCall => subscribeCalls[1] = email
    /\ email = "" =>
          /\ spc \in {"loop", "prompting"}
          /\ subscribeCalls = <<>> /\ listeners = <<>> /\ emitter = "none" /\ ~printed
          /\ ~ENABLED CallSubscribe
          /\ (spc = "loop" /\ promptCount < MaxPrompts) => ENABLED Prompt
    /\ spc \in {"awaiting", "resumed", "done", "rejected"} =>
          listeners = <<"cli:subscribe:error", "cli:subscribe">>
    /\ spc = "resumed" => emitter = "resolved"
    /\ printed => spc = "done" /\ emitter = "resolved"
    /\ emitter = "rejected" => ~printed /\ spc # "resumed" /\ spc # "done"

C9_Witness ==
    /\ spc = "done"
    /\ printed
    /\ promptCount = 2
    /\ subscribeCalls = <<email>>
    /\ emitter = "resolved"

====
